---- MODULE Spec2Model ----
(***************************************************************************)
(* State-machine model of the exercise modules of prog-alused:             *)
(*   src/OOP/order.py  OrderItem, Order, Container, OrderAggregator,       *)
(*                     ContainerAggregator                                 *)
(*   src/OOP/poker.py  Card, Hand                                          *)
(* Three specifications share the variables: Spec (the OrderAggregator     *)
(* pool), SpecContainers (ContainerAggregator.prepare_containers, one loop *)
(* iteration per step) and SpecHand (Hand).  A component that a            *)
(* specification does not run keeps its initial value.                     *)
(***************************************************************************)
EXTENDS Integers, Sequences, FiniteSets

VARIABLES
    order_items,       \* OrderAggregator.order_items: list of OrderItem
    served,            \* history: customers whose aggregate_order succeeded, no item added since
    call,              \* observation of the last aggregate_order call (arguments, pool before, result)
    raised,            \* exception raised by the last operation, or None
    container_volume,  \* ContainerAggregator.container_volume
    not_used_orders,   \* ContainerAggregator.not_used_orders
    orders,            \* prepare_containers: the argument tuple
    idx,               \* prepare_containers: position of "for order in orders"
    containers,        \* prepare_containers: the local dict, in key insertion order
    pc,                \* prepare_containers: "idle" | "loop" | "returned"
    cards,             \* Hand.cards: list of Card objects
    hand_type          \* result of the last get_hand_type call since the hand changed

vars == <<order_items, served, call, raised, container_volume, not_used_orders,
          orders, idx, containers, pc, cards, hand_type>>

poolVars == <<order_items, served, call>>
packVars == <<container_volume, not_used_orders, orders, idx, containers, pc>>
handVars == <<cards, hand_type>>

None == "None"

(***************************************************************************)
(* Bounds of the model and the inputs the callers draw from.               *)
(***************************************************************************)
MaxPool == 3
MaxLimit == 2
MaxOrders == 3
MaxContainerVolume == 3

Customers == {"X", "Y"}
Destinations == {"A", "B"}
\* products a caller orders (name, volume of one piece) and in what quantities
Catalogue == {<<"bolt", 1>>, <<"crate", 2>>}
Quantities == {1, 2}

\* sum(...) over a list of integers
RECURSIVE sum(_)
sum(xs) == IF xs = <<>> THEN 0 ELSE Head(xs) + sum(Tail(xs))

(***************************************************************************)
(* order.py: OrderItem, Order                                              *)
(***************************************************************************)
OrderItem(customer, name, quantity, one_item_volume) ==
    [customer |-> customer, name |-> name, quantity |-> quantity,
     one_item_volume |-> one_item_volume]

\* OrderItem.total_volume
item_total_volume(item) == item.quantity * item.one_item_volume

\* (item.quantity for item in items)
item_quantities(items) == [i \in 1..Len(items) |-> items[i].quantity]

\* (item.total_volume for item in items)
item_total_volumes(items) == [i \in 1..Len(items) |-> item_total_volume(items[i])]

Order(items, destination) == [order_items |-> items, destination |-> destination]

total_quantity(order) == sum(item_quantities(order.order_items))

total_volume(order) == sum(item_total_volumes(order.order_items))

Items == {OrderItem(c, p[1], q, p[2]) : c \in Customers, p \in Catalogue, q \in Quantities}

Limits == {-1} \cup (0..MaxLimit)

ItemLists == {<<>>} \cup {<<i>> : i \in Items} \cup {<<i, j>> : i \in Items, j \in Items}

(***************************************************************************)
(* order.py: OrderAggregator                                               *)
(***************************************************************************)
NoCall == [op |-> None]

\* list.remove(x): drop the first element equal to x (dataclass equality:
\* field by field); the caller checks membership first.
RECURSIVE list_remove(_, _)
list_remove(xs, x) ==
    IF xs = <<>> THEN <<>>
    ELSE IF Head(xs) = x THEN Tail(xs)
         ELSE <<Head(xs)>> \o list_remove(Tail(xs), x)

contains(xs, x) == \E i \in 1..Len(xs) : xs[i] = x

\* "for item in items: self.order_items.remove(item)" from the iterator's
\* position i on: the pool and the exception after the loop.  The list
\* iterator reads items[i] while i is within the list's current length;
\* when the argument is the pool object itself (aliased) the list it reads
\* is the pool as the removals so far have left it.  list.remove raises
\* ValueError at the first item that is absent, the removals before it stay.
RECURSIVE remove_loop(_, _, _, _)
remove_loop(pool, items, aliased, i) ==
    LET iterated == IF aliased THEN pool ELSE items IN
    IF i > Len(iterated) THEN [pool |-> pool, raised |-> None]
    ELSE IF ~contains(pool, iterated[i]) THEN [pool |-> pool, raised |-> "ValueError"]
         ELSE remove_loop(list_remove(pool, iterated[i]), items, aliased, i + 1)

\* mutant of remove_items: the loop ends after its first removal
remove_items_first_only(pool, items, aliased) ==
    IF items = <<>> THEN [pool |-> pool, raised |-> None]
    ELSE IF ~contains(pool, Head(items)) THEN [pool |-> pool, raised |-> "ValueError"]
         ELSE [pool |-> list_remove(pool, Head(items)), raised |-> None]

\* remove_items(items); aliased: items is self.order_items itself, not
\* another list
remove_items(pool, items, aliased) == remove_loop(pool, items, aliased, 1)

\* items = [item for item in self.order_items if item.customer == customer]
RECURSIVE items_of(_, _)
items_of(pool, customer) ==
    IF pool = <<>> THEN <<>>
    ELSE IF Head(pool).customer = customer
         THEN <<Head(pool)>> \o items_of(Tail(pool), customer)
         ELSE items_of(Tail(pool), customer)

\* mutant of fits: "or" for "and"
fits_either(items, max_items_quantity, max_volume) ==
    \/ sum(item_quantities(items)) <= max_items_quantity
    \/ sum(item_total_volumes(items)) <= max_volume

\* mutant of fits: "<" for "<="
fits_strict(items, max_items_quantity, max_volume) ==
    /\ sum(item_quantities(items)) < max_items_quantity
    /\ sum(item_total_volumes(items)) < max_volume

\* the limit check of aggregate_order
fits(items, max_items_quantity, max_volume) ==
    /\ sum(item_quantities(items)) <= max_items_quantity
    /\ sum(item_total_volumes(items)) <= max_volume

\* a returned value that is an Order or None: <<order>> or <<>>
Returned(order) == <<order>>
ReturnedNone == <<>>

\* aggregate_order: the returned value and the pool afterwards
aggregate_order(pool, customer, max_items_quantity, max_volume) ==
    LET items == items_of(pool, customer) IN
    IF fits(items, max_items_quantity, max_volume)
    THEN LET r == remove_items(pool, items, FALSE) IN
         [result |-> Returned(Order(items, None)), pool |-> r.pool, raised |-> r.raised]
    ELSE [result |-> ReturnedNone, pool |-> pool, raised |-> None]

InitOrderAggregator ==
    /\ order_items = <<>>
    /\ served = {}
    /\ call = NoCall

AddItem(item) ==
    /\ call = NoCall
    /\ Len(order_items) < MaxPool
    /\ order_items' = Append(order_items, item)
    /\ served' = served \ {item.customer}
    /\ call' = NoCall
    /\ raised' = None
    /\ UNCHANGED <<packVars, handVars>>

\* remove_items(items) called with another list (aliased = FALSE) or with
\* the aggregator's own order_items list (aliased = TRUE)
RemoveItems(items, aliased) ==
    LET r == remove_items(order_items, items, aliased) IN
    /\ call = NoCall
    /\ aliased => items = order_items
    /\ order_items' = r.pool
    /\ raised' = r.raised
    /\ call' = NoCall
    /\ UNCHANGED <<served, packVars, handVars>>

AggregateOrder(customer, max_items_quantity, max_volume) ==
    LET r == aggregate_order(order_items, customer, max_items_quantity, max_volume) IN
    /\ call = NoCall
    /\ order_items' = r.pool
    /\ raised' = r.raised
    /\ served' = IF r.result # ReturnedNone THEN served \cup {customer} ELSE served
    /\ call' = [op |-> "aggregate_order", customer |-> customer,
                max_items_quantity |-> max_items_quantity, max_volume |-> max_volume,
                pool |-> order_items, served |-> served, result |-> r.result]
    /\ UNCHANGED <<packVars, handVars>>

\* the caller has taken the value aggregate_order returned
TakeResult ==
    /\ call # NoCall
    /\ call' = NoCall
    /\ UNCHANGED <<order_items, served, raised, packVars, handVars>>

(***************************************************************************)
(* order.py: Container, ContainerAggregator                                *)
(* An Order object held by a container or by not_used_orders is modelled   *)
(* as a reference: its position in the argument tuple `orders`.            *)
(***************************************************************************)
\* orders a caller hands to prepare_containers: one customer's order with a
\* destination assigned
PackOrders ==
    {Order(<<i>>, d) : i \in {j \in Items : j.customer = "X"}, d \in Destinations}

OrderTuples == UNION {[1..n -> PackOrders] : n \in 0..MaxOrders}

ContainerVolumes == 1..MaxContainerVolume

Container(volume, refs) == [volume |-> volume, orders |-> refs]

\* Container.volume_left; an order of the container is orders[c.orders[i]]
volume_left(c) ==
    c.volume - sum([i \in 1..Len(c.orders) |-> total_volume(orders[c.orders[i]])])

\* mutant of first_fit: the last container with room, not the first
last_fit(container_list, order, destination) ==
    LET ok == {k \in 1..Len(container_list) :
                  /\ total_volume(order) <= volume_left(container_list[k])
                  /\ order.destination = destination}
    IN IF ok = {} THEN 0 ELSE CHOOSE k \in ok : \A j \in ok : k >= j

\* next((c for c in container_list if order.total_volume <= c.volume_left
\*       and order.destination == destination), None):
\* the position of the container found, 0 for None
first_fit(container_list, order, destination) ==
    LET ok == {k \in 1..Len(container_list) :
                  /\ total_volume(order) <= volume_left(container_list[k])
                  /\ order.destination = destination}
    IN IF ok = {} THEN 0 ELSE CHOOSE k \in ok : \A j \in ok : k <= j

\* the first (destination, container_list) of containers.items() in which
\* first_fit finds a container, 0 when the scan ends with placed = False
first_entry(dict, order) ==
    LET hit == {e \in 1..Len(dict) :
                   first_fit(dict[e].container_list, order, dict[e].destination) # 0}
    IN IF hit = {} THEN 0 ELSE CHOOSE e \in hit : \A j \in hit : e <= j

\* mutant of new_container: the order is not appended to the new container
new_container_empty(ref) == Container(container_volume, <<>>)

\* container = Container(self.container_volume); container.orders.append(order)
new_container(ref) == Container(container_volume, <<ref>>)

\* containers[order.destination].append(container) on a defaultdict(list):
\* a missing key is inserted after the existing keys
dict_append(dict, destination, container) ==
    IF \E e \in 1..Len(dict) : dict[e].destination = destination
    THEN [e \in 1..Len(dict) |->
            IF dict[e].destination = destination
            THEN [dict[e] EXCEPT !.container_list = Append(@, container)]
            ELSE dict[e]]
    ELSE Append(dict, [destination |-> destination, container_list |-> <<container>>])

\* one iteration of "for order in orders": the dict after the order at
\* position ref has been placed
place(dict, ref) ==
    LET order == orders[ref]
        e == first_entry(dict, order)
    IN IF e # 0
       THEN LET k == first_fit(dict[e].container_list, order, dict[e].destination)
            IN [dict EXCEPT ![e].container_list[k].orders = Append(@, ref)]
       ELSE dict_append(dict, order.destination, new_container(ref))

InitContainerAggregator ==
    /\ container_volume \in ContainerVolumes
    /\ not_used_orders = <<>>
    /\ orders = <<>>
    /\ idx = 0
    /\ containers = <<>>
    /\ pc = "idle"

\* prepare_containers(orders) is entered: containers = defaultdict(list)
PrepareBegin(arg) ==
    /\ pc = "idle"
    /\ orders' = arg
    /\ idx' = 1
    /\ containers' = <<>>
    /\ pc' = "loop"
    /\ UNCHANGED <<container_volume, not_used_orders, poolVars, handVars, raised>>

\* one iteration of the loop over orders
PrepareLoop ==
    /\ pc = "loop"
    /\ idx <= Len(orders)
    /\ containers' = place(containers, idx)
    /\ idx' = idx + 1
    /\ UNCHANGED <<container_volume, not_used_orders, orders, pc, poolVars, handVars, raised>>

\* return containers
PrepareReturn ==
    /\ pc = "loop"
    /\ idx > Len(orders)
    /\ pc' = "returned"
    /\ UNCHANGED <<container_volume, not_used_orders, orders, idx, containers,
                   poolVars, handVars, raised>>

\* the caller lets go of the returned dict; the aggregator can be called again
PrepareDiscard ==
    /\ pc = "returned"
    /\ orders' = <<>>
    /\ idx' = 0
    /\ containers' = <<>>
    /\ pc' = "idle"
    /\ UNCHANGED <<container_volume, not_used_orders, poolVars, handVars, raised>>

(***************************************************************************)
(* poker.py: Card, Hand                                                    *)
(* A Card object is a record with an id standing for its identity: Card    *)
(* defines no __eq__, so "in" and list.remove compare objects by identity. *)
(***************************************************************************)
suits == <<"diamonds", "clubs", "hearts", "spades">>
values == <<"2", "3", "4", "5", "6", "7", "8", "9", "10", "J", "Q", "K", "A">>

HandSize == 5

NotCalled == "not called"

\* Card(value, suit) objects the caller has constructed, by identity
Deck == << <<"A", "hearts">>, <<"A", "clubs">>, <<"A", "spades">>, <<"A", "diamonds">>,
           <<"9", "diamonds">>, <<"9", "hearts">>, <<"K", "diamonds">>, <<"Q", "diamonds">>,
           <<"J", "diamonds">>, <<"10", "diamonds">>,
           <<"A", "hearts">>, <<"1", "hearts">>, <<"A", "stars">> >>

Card(id) == [id |-> id, value |-> Deck[id][1], suit |-> Deck[id][2]]

CardObjects == {Card(id) : id \in 1..Len(Deck)}

\* x in xs for a list of strings
member(xs, x) == \E i \in 1..Len(xs) : xs[i] = x

\* xs.index(x), zero-based; x is in xs
index(xs, x) == (CHOOSE i \in 1..Len(xs) : xs[i] = x /\ \A j \in 1..(i - 1) : xs[j] # x) - 1

\* xs.count(x)
count(xs, x) == Cardinality({i \in 1..Len(xs) : xs[i] = x})

\* sorted(xs) for a list of integers
RECURSIVE insert(_, _)
insert(xs, x) ==
    IF xs = <<>> THEN <<x>>
    ELSE IF x <= Head(xs) THEN <<x>> \o xs
         ELSE <<Head(xs)>> \o insert(Tail(xs), x)

RECURSIVE sorted(_)
sorted(xs) == IF xs = <<>> THEN <<>> ELSE insert(sorted(Tail(xs)), Head(xs))

\* card in hand: identity of the object
holds(hand, card) == \E i \in 1..Len(hand) : hand[i].id = card.id

can_add_card(hand, card) ==
    /\ member(values, card.value)
    /\ member(suits, card.suit)
    /\ Len(hand) < HandSize
    /\ ~holds(hand, card)

can_remove_card(hand, card) == holds(hand, card)

\* self.cards.remove(card): drop the first element that is the object
RECURSIVE remove_card(_, _)
remove_card(hand, card) ==
    IF hand = <<>> THEN <<>>
    ELSE IF Head(hand).id = card.id THEN Tail(hand)
         ELSE <<Head(hand)>> \o remove_card(Tail(hand), card)

is_straight(hand) ==
    LET sorted_values == sorted([i \in 1..Len(hand) |-> index(values, hand[i].value)]) IN
    /\ sorted_values[Len(sorted_values)] - sorted_values[1] = 4
    /\ Cardinality({sorted_values[i] : i \in 1..Len(sorted_values)}) = 5

is_flush(hand) == Cardinality({hand[i].suit : i \in 1..Len(hand)}) = 1

is_straight_flush(hand) == is_straight(hand) /\ is_flush(hand)

\* values_count = [self.values.count(card.value) for card in self.cards]
values_count(hand) == [i \in 1..Len(hand) |-> count(values, hand[i].value)]

is_full_house(hand) == sorted(values_count(hand)) = <<2, 3>>

is_four_of_a_kind(hand) == member(values_count(hand), 4)

is_three_of_a_kind(hand) == member(values_count(hand), 3)

is_pair(hand) == member(values_count(hand), 2)

get_hand_type(hand) ==
    IF Len(hand) < 5 THEN None
    ELSE IF is_straight_flush(hand) THEN "straight flush"
    ELSE IF is_flush(hand) THEN "flush"
    ELSE IF is_straight(hand) THEN "straight"
    ELSE IF is_full_house(hand) THEN "full house"
    ELSE IF is_four_of_a_kind(hand) THEN "four of a kind"
    ELSE IF is_three_of_a_kind(hand) THEN "three of a kind"
    ELSE IF is_pair(hand) THEN "pair"
    ELSE "high card"

InitHand ==
    /\ cards = <<>>
    /\ hand_type = NotCalled

AddCard(card) ==
    /\ IF can_add_card(cards, card)
       THEN cards' = Append(cards, card) /\ raised' = None
       ELSE cards' = cards /\ raised' = "ValueError"
    /\ hand_type' = NotCalled
    /\ UNCHANGED <<poolVars, packVars>>

RemoveCard(card) ==
    /\ IF can_remove_card(cards, card)
       THEN cards' = remove_card(cards, card) /\ raised' = None
       ELSE cards' = cards /\ raised' = "ValueError"
    /\ hand_type' = NotCalled
    /\ UNCHANGED <<poolVars, packVars>>

GetHandType ==
    /\ hand_type' = get_hand_type(cards)
    /\ raised' = None
    /\ UNCHANGED <<cards, poolVars, packVars>>

(***************************************************************************)
(* Specifications                                                          *)
(***************************************************************************)
\* a component the specification does not run
NoOrderAggregator == order_items = <<>> /\ served = {} /\ call = NoCall
NoContainerAggregator ==
    /\ container_volume = 0 /\ not_used_orders = <<>> /\ orders = <<>>
    /\ idx = 0 /\ containers = <<>> /\ pc = "idle"
NoHand == cards = <<>> /\ hand_type = NotCalled

Init == InitOrderAggregator /\ NoContainerAggregator /\ NoHand /\ raised = None
Next ==
    \/ \E item \in Items : AddItem(item)
    \/ \E items \in ItemLists : RemoveItems(items, FALSE)
    \/ \E aliased \in BOOLEAN : RemoveItems(order_items, aliased)
    \/ \E c \in Customers, q \in Limits, v \in Limits : AggregateOrder(c, q, v)
    \/ TakeResult
Spec == Init /\ [][Next]_vars

InitContainers == NoOrderAggregator /\ InitContainerAggregator /\ NoHand /\ raised = None
NextContainers ==
    \/ \E arg \in OrderTuples : PrepareBegin(arg)
    \/ PrepareLoop
    \/ PrepareReturn
    \/ PrepareDiscard
SpecContainers == InitContainers /\ [][NextContainers]_vars

InitPoker == NoOrderAggregator /\ NoContainerAggregator /\ InitHand /\ raised = None
NextPoker ==
    \/ \E card \in CardObjects : AddCard(card)
    \/ \E card \in CardObjects : RemoveCard(card)
    \/ GetHandType
SpecHand == InitPoker /\ [][NextPoker]_vars

(***************************************************************************)
(* Properties of OrderAggregator, checked under Spec                       *)
(***************************************************************************)
\* the summed quantity and the summed total volume of a list of items
SumQuantity(xs) ==
    LET S[n \in 0..Len(xs)] == IF n = 0 THEN 0 ELSE S[n - 1] + xs[n].quantity
    IN S[Len(xs)]

SumVolume(xs) ==
    LET S[n \in 0..Len(xs)] ==
            IF n = 0 THEN 0 ELSE S[n - 1] + xs[n].quantity * xs[n].one_item_volume
    IN S[Len(xs)]

Aggregated == call.op = "aggregate_order"

\* the pending items of the call's customer, and the other items, in pool order
CallMine == LET t(i) == i.customer = call.customer IN SelectSeq(call.pool, t)
CallOthers == LET t(i) == i.customer # call.customer IN SelectSeq(call.pool, t)

CallWithinLimits ==
    /\ SumQuantity(CallMine) <= call.max_items_quantity
    /\ SumVolume(CallMine) <= call.max_volume

\* C1: when the customer's pending items are within both limits,
\* aggregate_order returns an Order holding exactly the pool's items of that
\* customer, and the pool afterwards is the pool before without them: no
\* item of the customer remains, every other item remains.
C1_AggregateTakesExactlyTheCustomersItems ==
    (Aggregated /\ CallWithinLimits) =>
        /\ Len(call.result) = 1
        /\ call.result[1].order_items = CallMine
        /\ order_items = CallOthers
        /\ raised = None

C1_Witness ==
    /\ Aggregated /\ CallWithinLimits
    /\ Len(CallMine) >= 2
    /\ Len(CallOthers) >= 1
    /\ call.pool[1].customer = call.customer
    /\ call.pool[2].customer # call.customer
    /\ order_items = CallOthers

\* C2: when the customer's pending items exceed either limit, aggregate_order
\* returns None and the pool is identical, in content and order, to the pool
\* before the call.
C2_OverLimitReturnsNoneAndKeepsPool ==
    (Aggregated /\ ~CallWithinLimits) =>
        /\ call.result = ReturnedNone
        /\ order_items = call.pool
        /\ raised = None

C2_Witness ==
    /\ Aggregated /\ ~CallWithinLimits
    /\ Len(CallMine) >= 2
    /\ Len(CallOthers) >= 1
    /\ call.max_items_quantity >= 0 /\ call.max_volume >= 0
    /\ call.result = ReturnedNone
    /\ order_items = call.pool

\* the call is for a customer whose last aggregate_order succeeded, with no
\* item of that customer added since, and its limits are not negative
CallAgainAfterSuccess ==
    /\ Aggregated
    /\ call.customer \in call.served
    /\ call.max_items_quantity >= 0
    /\ call.max_volume >= 0

\* C6 as stated: after aggregate_order has succeeded for a customer and no
\* item of that customer was added since, aggregate_order for the customer
\* with non-negative limits returns None.
C6_AgainReturnsNone == CallAgainAfterSuccess => call.result = ReturnedNone

\* C6 amended: in that case aggregate_order returns an Order with no order
\* items (not None) and the pool is unchanged.
C6_AgainReturnsEmptyOrder ==
    CallAgainAfterSuccess =>
        /\ call.result = Returned(Order(<<>>, None))
        /\ order_items = call.pool

C6_Witness ==
    /\ CallAgainAfterSuccess
    /\ call.pool # <<>>
    /\ call.result # ReturnedNone

(***************************************************************************)
(* Properties of ContainerAggregator, checked under SpecContainers         *)
(***************************************************************************)
\* the containers of the dict as (entry, position in the entry's list)
Slots == {s \in (1..Len(containers)) \X (1..Len(orders)) :
             s[2] <= Len(containers[s[1]].container_list)}

SlotOrders(s) == containers[s[1]].container_list[s[2]].orders

OrderVolume(ref) == SumVolume(orders[ref].order_items)

\* what the container at slot s had left when the order ref was processed
LeftBefore(s, ref) ==
    LET earlier == {p \in 1..Len(SlotOrders(s)) : SlotOrders(s)[p] < ref}
        Used[n \in 0..Len(SlotOrders(s))] ==
            IF n = 0 THEN 0
            ELSE Used[n - 1] + (IF n \in earlier THEN OrderVolume(SlotOrders(s)[n]) ELSE 0)
    IN container_volume - Used[Len(SlotOrders(s))]

\* C3 as stated: volume_left of every container is never negative, during
\* and after prepare_containers.
C3_VolumeLeftNeverNegative ==
    \A s \in Slots : volume_left(containers[s[1]].container_list[s[2]]) >= 0

\* C4: every order lies in a container of its own destination; when it was
\* processed no earlier container of that destination had room for it; it
\* joined an existing container only if that one had room, and otherwise it
\* opened a new container of container_volume at the end of the
\* destination's list.  Two orders for one destination that do not fit
\* together end in two containers, the first holding only the first order.
C4_FirstFit ==
    /\ \A s \in Slots :
        /\ containers[s[1]].container_list[s[2]].volume = container_volume
        /\ SlotOrders(s) # <<>>
        /\ \A p \in 1..Len(SlotOrders(s)) :
            LET ref == SlotOrders(s)[p] IN
            /\ orders[ref].destination = containers[s[1]].destination
            /\ \A j \in 1..(s[2] - 1) : LeftBefore(<<s[1], j>>, ref) < OrderVolume(ref)
            /\ p > 1 => /\ SlotOrders(s)[p - 1] < ref
                        /\ LeftBefore(s, ref) >= OrderVolume(ref)
        /\ \A j \in 1..(s[2] - 1) : SlotOrders(<<s[1], j>>)[1] < SlotOrders(s)[1]
    /\ \A e1, e2 \in 1..Len(containers) :
        containers[e1].destination = containers[e2].destination => e1 = e2
    /\ (/\ pc = "returned" /\ Len(orders) = 2
        /\ orders[1].destination = orders[2].destination
        /\ OrderVolume(1) + OrderVolume(2) > container_volume) =>
           containers = <<[destination |-> orders[1].destination,
                           container_list |-> <<Container(container_volume, <<1>>),
                                                Container(container_volume, <<2>>)>>]>>

\* orders of volume 2, 2 and 1 for one destination, containers of volume 3:
\* the third order joins the first container, the second container has as
\* much room
C4_Witness ==
    /\ pc = "returned"
    /\ container_volume = 3
    /\ Len(orders) = 3
    /\ \A r \in 1..3 : orders[r].destination = "A"
    /\ OrderVolume(1) = 2 /\ OrderVolume(2) = 2 /\ OrderVolume(3) = 1
    /\ Len(containers) = 1
    /\ containers[1].container_list =
           <<Container(container_volume, <<1, 3>>), Container(container_volume, <<2>>)>>

\* how many times the order ref is held by the containers of the dict
TimesHeld(ref) ==
    Cardinality({x \in Slots \X (1..Len(orders)) :
                    /\ x[2] <= Len(SlotOrders(x[1]))
                    /\ SlotOrders(x[1])[x[2]] = ref})

HeldTotal ==
    LET n(s) == Len(SlotOrders(s))
        RECURSIVE Total(_)
        Total(S) == IF S = {} THEN 0
                    ELSE LET s == CHOOSE x \in S : TRUE IN n(s) + Total(S \ {s})
    IN Total(Slots)

\* C5: prepare_containers neither drops nor duplicates an order: each order
\* processed so far is held exactly once by the containers, the orders held
\* plus those in not_used_orders are as many as the orders processed, and on
\* return as many as the orders given.
C5_NoOrderDroppedOrDuplicated ==
    pc \in {"loop", "returned"} =>
        /\ \A ref \in 1..(idx - 1) : TimesHeld(ref) = 1
        /\ HeldTotal + Len(not_used_orders) = idx - 1
        /\ pc = "returned" => HeldTotal + Len(not_used_orders) = Len(orders)

C5_Witness ==
    /\ pc = "returned"
    /\ Len(orders) = 3
    /\ Len(containers) = 2
    /\ \E e \in 1..Len(containers) : Len(containers[e].container_list) = 2
    /\ HeldTotal = 3

\* C7 as stated: an order whose total_volume exceeds container_volume is
\* added to not_used_orders and placed in no container.
C7_OversizedOrderIsNotUsed ==
    pc \in {"loop", "returned"} =>
        \A ref \in 1..(idx - 1) :
            OrderVolume(ref) > container_volume =>
                /\ \E p \in 1..Len(not_used_orders) : not_used_orders[p] = ref
                /\ TimesHeld(ref) = 0

(***************************************************************************)
(* Properties of Hand, checked under SpecHand                              *)
(***************************************************************************)
\* C8 as stated: the hand never holds two cards with the same suit and the
\* same value, whether or not they are the same Card object.
C8_NoTwoCardsAlike ==
    \A i, j \in 1..Len(cards) :
        (cards[i].suit = cards[j].suit /\ cards[i].value = cards[j].value) => i = j

\* how many cards of the hand share the value of the card at position i
SameValue(i) == Cardinality({j \in 1..Len(cards) : cards[j].value = cards[i].value})

Multiplicities == {SameValue(i) : i \in 1..Len(cards)}

ByMultiplicity ==
    IF 3 \in Multiplicities /\ 2 \in Multiplicities THEN "full house"
    ELSE IF 4 \in Multiplicities THEN "four of a kind"
    ELSE IF 3 \in Multiplicities THEN "three of a kind"
    ELSE IF 2 \in Multiplicities THEN "pair"
    ELSE "high card"

\* C9 as stated: a hand of five distinct valid cards that is neither a flush
\* nor a straight is classified by value multiplicity: full house, four of a
\* kind, three of a kind, pair, high card.
C9_ClassifiedByMultiplicity ==
    (/\ hand_type # NotCalled
     /\ Len(cards) = 5
     /\ Cardinality({<<cards[i].value, cards[i].suit>> : i \in 1..5}) = 5
     /\ ~is_flush(cards)
     /\ ~is_straight(cards)) => hand_type = ByMultiplicity

====
